---- MODULE Spec2Model ----
(***************************************************************************)
(* One-pass (streaming / parallel) variance accumulation of                *)
(* libertem/udf/stddev.py: the pairwise merge of VarianceParts, the frame  *)
(* count validation, StdDevUDF.process_tile, StdDevUDF.merge and           *)
(* consolidate_result.                                                     *)
(*                                                                         *)
(* Array elements are exact rationals [n, d] (d > 0, lowest terms)         *)
(* extended with the IEEE-754 specials that numpy produces on a division   *)
(* by zero: NaN = 0/0, +inf = 1/0, -inf = -1/0.  Rounding of float32 is    *)
(* not modelled: finite arithmetic is exact.                               *)
(***************************************************************************)
EXTENDS Integers, Sequences, FiniteSets, TLC

\* ---------------------------------------------------------------- bounds
MaxFrames == 3      \* cap on frame counts and on frames streamed as tiles

\* ------------------------------------------------------------ arithmetic
Abs(x) == IF x < 0 THEN -x ELSE x
Sgn(x) == IF x < 0 THEN -1 ELSE IF x > 0 THEN 1 ELSE 0

RECURSIVE GCD(_, _)
GCD(a, b) == IF b = 0 THEN a ELSE GCD(b, a % b)

\* the finite value n/d (d # 0), in lowest terms with a positive denominator
Rat(n, d) ==
    LET g == GCD(Abs(n), Abs(d))
        s == IF d < 0 THEN -1 ELSE 1
    IN  [n |-> (s * n) \div g, d |-> (s * d) \div g]

I(k) == Rat(k, 1)
NaN == [n |-> 0, d |-> 0]
Inf(s) == [n |-> s, d |-> 0]
IsNaN(x) == x.d = 0 /\ x.n = 0
IsFinite(x) == x.d # 0

FAdd(a, b) ==
    IF IsNaN(a) \/ IsNaN(b) THEN NaN
    ELSE IF a.d = 0 /\ b.d = 0 THEN (IF a.n = b.n THEN a ELSE NaN)
    ELSE IF a.d = 0 THEN a
    ELSE IF b.d = 0 THEN b
    ELSE Rat(a.n * b.d + b.n * a.d, a.d * b.d)

FNeg(a) == [n |-> -a.n, d |-> a.d]

FSub(a, b) == FAdd(a, FNeg(b))

FMul(a, b) ==
    IF IsNaN(a) \/ IsNaN(b) THEN NaN
    ELSE IF a.d = 0 \/ b.d = 0
         THEN (IF a.n = 0 \/ b.n = 0 THEN NaN ELSE Inf(Sgn(a.n) * Sgn(b.n)))
    ELSE Rat(a.n * b.n, a.d * b.d)

\* numpy true division: x/0 is nan for x = 0 and +-inf otherwise (a warning,
\* no exception)
FDiv(a, b) ==
    IF IsNaN(a) \/ IsNaN(b) THEN NaN
    ELSE IF b.d = 0 THEN (IF a.d = 0 THEN NaN ELSE I(0))
    ELSE IF b.n = 0 THEN (IF a.n = 0 THEN NaN ELSE Inf(Sgn(a.n)))
    ELSE IF a.d = 0 THEN Inf(Sgn(a.n) * Sgn(b.n))
    ELSE Rat(a.n * b.d, a.d * b.n)

\* np.sqrt, kept symbolic: the root of a finite v >= 0 is the value whose
\* square is v; the root of a negative number or of nan is nan
FSqrt(v) ==
    IF IsNaN(v) \/ v.n < 0 THEN NaN
    ELSE IF v.d = 0 THEN v
    ELSE [sqrt_of |-> v]

\* elementwise array operations (an array is a function from elements to
\* values; a scalar is broadcast)
ArrAdd(a, b) == [i \in DOMAIN a |-> FAdd(a[i], b[i])]
ArrSub(a, b) == [i \in DOMAIN a |-> FSub(a[i], b[i])]
ArrMul(a, b) == [i \in DOMAIN a |-> FMul(a[i], b[i])]
ArrDivS(a, k) == [i \in DOMAIN a |-> FDiv(a[i], I(k))]
ArrMulS(k, a) == [i \in DOMAIN a |-> FMul(I(k), a[i])]

\* ------------------------------------------------------- pairwise merge
VariancePart(var, sum_im, N) == [var |-> var, sum_im |-> sum_im, N |-> N]

\* merge without its `if p0.N == 0: return p1`
merge_no_guard(p0, p1) ==
    LET N == p0.N + p1.N
        mean_A == ArrDivS(p0.sum_im, p0.N)
        mean_B == ArrDivS(p1.sum_im, p1.N)
        delta == ArrSub(mean_B, mean_A)
        mean == ArrAdd(mean_A, ArrDivS(ArrMulS(p1.N, delta), p0.N + p1.N))
        sum_im_AB == ArrAdd(p0.sum_im, p1.sum_im)
        delta_P == ArrSub(mean_B, mean)
        var_AB == ArrAdd(ArrAdd(p0.var, p1.var),
                         ArrMul(ArrMulS(p1.N, delta), delta_P))
    IN  VariancePart(var_AB, sum_im_AB, N)

\* merge with delta squared in place of delta * delta_P
merge_delta_sq(p0, p1) ==
    IF p0.N = 0 THEN p1
    ELSE LET N == p0.N + p1.N
             mean_A == ArrDivS(p0.sum_im, p0.N)
             mean_B == ArrDivS(p1.sum_im, p1.N)
             delta == ArrSub(mean_B, mean_A)
             sum_im_AB == ArrAdd(p0.sum_im, p1.sum_im)
             var_AB == ArrAdd(ArrAdd(p0.var, p1.var),
                              ArrMul(ArrMulS(p1.N, delta), delta))
         IN  VariancePart(var_AB, sum_im_AB, N)

merge(p0, p1) ==
    IF p0.N = 0 THEN p1
    ELSE LET N == p0.N + p1.N
             mean_A == ArrDivS(p0.sum_im, p0.N)
             mean_B == ArrDivS(p1.sum_im, p1.N)
             delta == ArrSub(mean_B, mean_A)
             mean == ArrAdd(mean_A, ArrDivS(ArrMulS(p1.N, delta), p0.N + p1.N))
             sum_im_AB == ArrAdd(p0.sum_im, p1.sum_im)
             delta_P == ArrSub(mean_B, mean)
             var_AB == ArrAdd(ArrAdd(p0.var, p1.var),
                              ArrMul(ArrMulS(p1.N, delta), delta_P))
         IN  VariancePart(var_AB, sum_im_AB, N)

\* ------------------------------------------------- region bookkeeping
\* `assert np.all(np.equal(values, values[0]))`: a failed assert raises
\* AssertionError; values[0] is the count of some key of the mapping
_validate_n_no_assert(num_frame) ==
    IF DOMAIN num_frame = {}
    THEN [raised |-> FALSE, N |-> 0]
    ELSE [raised |-> FALSE, N |-> num_frame[CHOOSE k \in DOMAIN num_frame : TRUE]]

_validate_n(num_frame) ==
    IF DOMAIN num_frame = {}
    THEN [raised |-> FALSE, N |-> 0]
    ELSE LET first == num_frame[CHOOSE k \in DOMAIN num_frame : TRUE]
         IN  IF \A k \in DOMAIN num_frame : num_frame[k] = first
             THEN [raised |-> FALSE, N |-> first]
             ELSE [raised |-> TRUE, N |-> first]

\* ------------------------------------------------------ result buffers
Workers == {"A", "B"}
Keys == {"r1", "r2"}            \* region keys: the signal slices of the tiles
Pix == Keys                     \* signal elements, one per signal slice
SigSlice(key) == {key}          \* the elements the slice `key` covers
Values == {0, 1}                \* pixel values of the streamed frames

Zeros == [i \in Pix |-> I(0)]

\* get_result_buffers and preprocess: zeroed sig buffers, empty dict
get_result_buffers ==
    [var |-> Zeros, sum_frame |-> Zeros, num_frame |-> [k \in {} |-> 0]]

\* ----------------------------------------------------- tile update step
RECURSIVE SeqSum(_, _)
SeqSum(tile, i) ==
    IF tile = <<>> THEN 0 ELSE Head(tile)[i] + SeqSum(Tail(tile), i)

\* tile.sum(axis=0)
tile_sum(tile) == [i \in DOMAIN Head(tile) |-> I(SeqSum(tile, i))]

RECURSIVE SqDev(_, _, _)
SqDev(tile, i, m) ==
    IF tile = <<>> THEN I(0)
    ELSE FAdd(FMul(FSub(I(Head(tile)[i]), m), FSub(I(Head(tile)[i]), m)),
              SqDev(Tail(tile), i, m))

\* np.var(tile, axis=0, ddof): sum of squared deviations from the tile's own
\* mean, divided by (number of frames - ddof)
np_var(tile, ddof) ==
    [i \in DOMAIN Head(tile) |->
        FDiv(SqDev(tile, i, FDiv(I(SeqSum(tile, i)), I(Len(tile)))),
             I(Len(tile) - ddof))]

Restrict(a, S) == [i \in S |-> a[i]]
WriteSlice(a, S, b) == [i \in DOMAIN a |-> IF i \in S THEN b[i] ELSE a[i]]

\* process_tile storing the tile's frame count instead of the merged count
process_tile_tile_count(results, key, tile) ==
    LET p0 == VariancePart(Restrict(results.var, SigSlice(key)),
                           Restrict(results.sum_frame, SigSlice(key)),
                           IF key \in DOMAIN results.num_frame
                           THEN results.num_frame[key] ELSE 0)
        p1 == VariancePart(np_var(tile, Len(tile) - 1), tile_sum(tile), Len(tile))
        compute_merge == merge(p0, p1)
    IN  [var |-> WriteSlice(results.var, SigSlice(key), compute_merge.var),
         sum_frame |-> WriteSlice(results.sum_frame, SigSlice(key),
                                  compute_merge.sum_im),
         num_frame |-> [k \in DOMAIN results.num_frame \cup {key} |->
                          IF k = key THEN p1.N ELSE results.num_frame[k]]]

\* process_tile storing the merged count under every region key
process_tile_all_keys(results, key, tile) ==
    LET num_frame0 == IF key \in DOMAIN results.num_frame
                      THEN results.num_frame
                      ELSE [k \in DOMAIN results.num_frame \cup {key} |->
                              IF k = key THEN 0 ELSE results.num_frame[k]]
        compute_merge == merge(VariancePart(Restrict(results.var, SigSlice(key)),
                                            Restrict(results.sum_frame, SigSlice(key)),
                                            num_frame0[key]),
                               VariancePart(np_var(tile, Len(tile) - 1),
                                            tile_sum(tile), Len(tile)))
    IN  [var |-> WriteSlice(results.var, SigSlice(key), compute_merge.var),
         sum_frame |-> WriteSlice(results.sum_frame, SigSlice(key),
                                  compute_merge.sum_im),
         num_frame |-> [k \in DOMAIN num_frame0 |-> compute_merge.N]]

\* StdDevUDF.process_tile on the result buffers `results` with the tile's
\* region key; self.results.var / sum_frame are the views of the sig buffers
\* for the tile's signal slice
process_tile(results, key, tile) ==
    LET num_frame0 == IF key \in DOMAIN results.num_frame
                      THEN results.num_frame
                      ELSE [k \in DOMAIN results.num_frame \cup {key} |->
                              IF k = key THEN 0 ELSE results.num_frame[k]]
        p0 == VariancePart(Restrict(results.var, SigSlice(key)),
                           Restrict(results.sum_frame, SigSlice(key)),
                           num_frame0[key])
        p1 == VariancePart(np_var(tile, Len(tile) - 1),
                           tile_sum(tile),
                           Len(tile))
        compute_merge == merge(p0, p1)
    IN  [var |-> WriteSlice(results.var, SigSlice(key), compute_merge.var),
         sum_frame |-> WriteSlice(results.sum_frame, SigSlice(key),
                                  compute_merge.sum_im),
         num_frame |-> [num_frame0 EXCEPT ![key] = compute_merge.N]]

\* ------------------------------------------- partition / worker merge
\* StdDevUDF.merge writing the combined count to every key of dest
StdDevUDF_merge_all_keys(dest, src) ==
    LET v0 == _validate_n(dest.num_frame)
        v1 == _validate_n(src.num_frame)
        compute_merge == merge(VariancePart(dest.var, dest.sum_frame, v0.N),
                               VariancePart(src.var, src.sum_frame, v1.N))
    IN  IF v0.raised \/ v1.raised
        THEN [raised |-> TRUE, dest |-> dest, src |-> src]
        ELSE [raised |-> FALSE,
              dest |-> [var |-> compute_merge.var,
                        sum_frame |-> compute_merge.sum_im,
                        num_frame |->
                          [k \in DOMAIN dest.num_frame \cup DOMAIN src.num_frame |->
                              compute_merge.N]],
              src |-> src]

\* StdDevUDF.merge validating the counts only after it wrote var and sum_frame
StdDevUDF_merge_write_first(dest, src) ==
    LET v0 == _validate_n(dest.num_frame)
        v1 == _validate_n(src.num_frame)
        compute_merge == merge(VariancePart(dest.var, dest.sum_frame, v0.N),
                               VariancePart(src.var, src.sum_frame, v1.N))
    IN  IF v0.raised \/ v1.raised
        THEN [raised |-> TRUE,
              dest |-> [var |-> compute_merge.var,
                        sum_frame |-> compute_merge.sum_im,
                        num_frame |-> dest.num_frame],
              src |-> src]
        ELSE [raised |-> FALSE,
              dest |-> [var |-> compute_merge.var,
                        sum_frame |-> compute_merge.sum_im,
                        num_frame |->
                          [k \in DOMAIN dest.num_frame \cup DOMAIN src.num_frame |->
                              IF k \in DOMAIN src.num_frame
                              THEN compute_merge.N
                              ELSE dest.num_frame[k]]],
              src |-> src]

\* StdDevUDF.merge storing the merged var and sum_frame in src as well
StdDevUDF_merge_writes_src(dest, src) ==
    LET v0 == _validate_n(dest.num_frame)
        v1 == _validate_n(src.num_frame)
        compute_merge == merge(VariancePart(dest.var, dest.sum_frame, v0.N),
                               VariancePart(src.var, src.sum_frame, v1.N))
    IN  IF v0.raised \/ v1.raised
        THEN [raised |-> TRUE, dest |-> dest, src |-> src]
        ELSE [raised |-> FALSE,
              dest |-> [var |-> compute_merge.var,
                        sum_frame |-> compute_merge.sum_im,
                        num_frame |->
                          [k \in DOMAIN dest.num_frame \cup DOMAIN src.num_frame |->
                              IF k \in DOMAIN src.num_frame
                              THEN compute_merge.N
                              ELSE dest.num_frame[k]]],
              src |-> [var |-> compute_merge.var,
                       sum_frame |-> compute_merge.sum_im,
                       num_frame |-> src.num_frame]]

\* StdDevUDF.merge(dest, src): the buffers of dest and src after the call and
\* whether it raised
StdDevUDF_merge(dest, src) ==
    LET v0 == _validate_n(dest.num_frame)
        v1 == _validate_n(src.num_frame)
        p0 == VariancePart(dest.var, dest.sum_frame, v0.N)
        p1 == VariancePart(src.var, src.sum_frame, v1.N)
        compute_merge == merge(p0, p1)
    IN  IF v0.raised \/ v1.raised
        THEN [raised |-> TRUE, dest |-> dest, src |-> src]
        ELSE [raised |-> FALSE,
              dest |-> [var |-> compute_merge.var,
                        sum_frame |-> compute_merge.sum_im,
                        num_frame |->
                          [k \in DOMAIN dest.num_frame \cup DOMAIN src.num_frame |->
                              IF k \in DOMAIN src.num_frame
                              THEN compute_merge.N
                              ELSE dest.num_frame[k]]],
              src |-> src]

\* --------------------------------------------------------- finalization
NoResult == [none |-> TRUE]

\* consolidate_result dividing the var buffer in place
consolidate_result_in_place(udf_result) ==
    LET v == _validate_n(udf_result.num_frame)
        var == ArrDivS(udf_result.var, v.N)
    IN  IF v.raised
        THEN [raised |-> TRUE, out |-> [none |-> TRUE], bufs |-> udf_result]
        ELSE [raised |-> FALSE,
              out |-> [var |-> var,
                       std |-> [i \in DOMAIN var |-> FSqrt(var[i])],
                       mean |-> ArrDivS(udf_result.sum_frame, v.N),
                       num_frame |-> v.N,
                       sum_frame |-> udf_result.sum_frame],
              bufs |-> [udf_result EXCEPT !.var = var]]

\* consolidate_result(udf_result): the returned dict (NoResult when the count
\* validation raised) and the buffers after the call
consolidate_result(udf_result) ==
    LET v == _validate_n(udf_result.num_frame)
        num_frame == v.N
        var == ArrDivS(udf_result.var, num_frame)
    IN  IF v.raised
        THEN [raised |-> TRUE, out |-> NoResult, bufs |-> udf_result]
        ELSE [raised |-> FALSE,
              out |-> [var |-> var,
                       std |-> [i \in DOMAIN var |-> FSqrt(var[i])],
                       mean |-> ArrDivS(udf_result.sum_frame, num_frame),
                       num_frame |-> num_frame,
                       sum_frame |-> udf_result.sum_frame],
              bufs |-> udf_result]

\* ------------------------------------------------------- state machine
VARIABLES
    bufs,       \* bufs[w]: the result buffers of worker w (var, sum_frame, num_frame)
    hist,       \* hist[w][i]: the frame values folded into element i of w, sorted
    tilesOnly,  \* tilesOnly[w]: w's buffers were written by process_tile only
    pre,        \* bufs and tilesOnly as they were before the last call
    last,       \* the last call: operation and arguments
    ret,        \* what the last call returned or raised
    parts,      \* pairwise merge on its own: the accumulators A, B, C
    merged      \* pairwise merge on its own: the computed groupings

vars == <<bufs, hist, tilesOnly, pre, last, ret, parts, merged>>

RECURSIVE SortedMerge(_, _)
SortedMerge(s, t) ==
    IF s = <<>> THEN t
    ELSE IF t = <<>> THEN s
    ELSE IF Head(s) <= Head(t) THEN <<Head(s)>> \o SortedMerge(Tail(s), t)
    ELSE <<Head(t)>> \o SortedMerge(s, Tail(t))

RECURSIVE Sorted(_)
Sorted(s) == IF s = <<>> THEN <<>> ELSE SortedMerge(<<Head(s)>>, Sorted(Tail(s)))

\* the values of element i over the frames of a tile
Column(tile, i) == [j \in 1 .. Len(tile) |-> tile[j][i]]

\* frames held by the accumulators of all workers
Held == LET RECURSIVE Sum(_)
            Sum(S) == IF S = {} THEN 0
                      ELSE LET x == CHOOSE y \in S : TRUE
                           IN  Len(hist[x[1]][x[2]]) + Sum(S \ {x})
        IN  Sum(Workers \X Pix)

\* the tiles of region key `key` with n frames
Tiles(key, n) == [1 .. n -> [SigSlice(key) -> Values]]

NoParts == [none |-> TRUE]

Init ==
    /\ bufs = [w \in Workers |-> get_result_buffers]
    /\ hist = [w \in Workers |-> [i \in Pix |-> <<>>]]
    /\ tilesOnly = [w \in Workers |-> TRUE]
    /\ pre = [bufs |-> bufs, tilesOnly |-> tilesOnly]
    /\ last = [op |-> "init", w |-> "A", src |-> "A", key |-> "r1", tile |-> <<>>]
    /\ ret = [raised |-> FALSE, out |-> NoResult]
    /\ parts = NoParts
    /\ merged = NoParts

\* the host streams one tile of region key `key` to worker w
ProcessTile(w, key, tile) ==
    /\ Held + Len(tile) <= MaxFrames
    /\ pre' = [bufs |-> bufs, tilesOnly |-> tilesOnly]
    /\ bufs' = [bufs EXCEPT ![w] = process_tile(bufs[w], key, tile)]
    /\ hist' = [hist EXCEPT ![w] =
                  [i \in Pix |-> IF i \in SigSlice(key)
                                 THEN SortedMerge(@[i], Sorted(Column(tile, i)))
                                 ELSE @[i]]]
    /\ last' = [op |-> "tile", w |-> w, src |-> w, key |-> key, tile |-> tile]
    /\ ret' = [raised |-> FALSE, out |-> NoResult]
    /\ UNCHANGED <<tilesOnly, parts, merged>>

\* the host's reduction merges the result set of worker s into that of d
Merge(d, s) ==
    LET r == StdDevUDF_merge(bufs[d], bufs[s]) IN
    /\ d # s
    /\ r.raised \/ \A k \in DOMAIN r.dest.num_frame : r.dest.num_frame[k] <= MaxFrames
    /\ pre' = [bufs |-> bufs, tilesOnly |-> tilesOnly]
    /\ bufs' = [bufs EXCEPT ![d] = r.dest, ![s] = r.src]
    /\ hist' = IF r.raised THEN hist
               ELSE [hist EXCEPT ![d] =
                       [i \in Pix |-> SortedMerge(hist[d][i], hist[s][i])]]
    /\ tilesOnly' = IF r.raised THEN tilesOnly ELSE [tilesOnly EXCEPT ![d] = FALSE]
    /\ last' = [op |-> "merge", w |-> d, src |-> s, key |-> "r1", tile |-> <<>>]
    /\ ret' = [raised |-> r.raised, out |-> NoResult]
    /\ UNCHANGED <<parts, merged>>

\* run_stddev's consolidate_result on the result set of worker w
Finalize(w) ==
    LET r == consolidate_result(bufs[w]) IN
    /\ pre' = [bufs |-> bufs, tilesOnly |-> tilesOnly]
    /\ bufs' = [bufs EXCEPT ![w] = r.bufs]
    /\ last' = [op |-> "final", w |-> w, src |-> w, key |-> "r1", tile |-> <<>>]
    /\ ret' = [raised |-> r.raised, out |-> r.out]
    /\ UNCHANGED <<hist, tilesOnly, parts, merged>>

Next ==
    \/ \E w \in Workers, key \in Keys, n \in 1 .. (MaxFrames - Held) :
         \E tile \in Tiles(key, n) : ProcessTile(w, key, tile)
    \/ \E d \in Workers, s \in Workers : Merge(d, s)
    \/ \E w \in Workers : Finalize(w)

Spec == Init /\ [][Next]_vars

\* ------------------------------------------ pairwise merge on its own
\* accumulators of real data: the empty one, and that of every tile of one
\* signal element with 1..MaxFrames frames
TileAcc(tile) ==
    VariancePart(np_var(tile, Len(tile) - 1), tile_sum(tile), Len(tile))

EmptyAcc(S) ==
    VariancePart([i \in S |-> I(0)], [i \in S |-> I(0)], 0)

PartSet ==
    {EmptyAcc(SigSlice("r1"))} \cup
    UNION {{TileAcc(tile) : tile \in Tiles("r1", n)} : n \in 1 .. MaxFrames}

InitPure ==
    /\ bufs = [w \in Workers |-> get_result_buffers]
    /\ hist = [w \in Workers |-> [i \in Pix |-> <<>>]]
    /\ tilesOnly = [w \in Workers |-> TRUE]
    /\ pre = [bufs |-> bufs, tilesOnly |-> tilesOnly]
    /\ last = [op |-> "init", w |-> "A", src |-> "A", key |-> "r1", tile |-> <<>>]
    /\ ret = [raised |-> FALSE, out |-> NoResult]
    /\ parts \in [{"A", "B", "C"} -> PartSet]
    /\ merged = [g \in {} |-> NoParts]

Computed(g, val) ==
    /\ g \notin DOMAIN merged
    /\ merged' = [h \in DOMAIN merged \cup {g} |-> IF h = g THEN val ELSE merged[h]]
    /\ UNCHANGED <<bufs, hist, tilesOnly, pre, last, ret, parts>>

MergeAB == Computed("ab", merge(parts.A, parts.B))
MergeBC == Computed("bc", merge(parts.B, parts.C))
MergeAB_C == "ab" \in DOMAIN merged /\ Computed("ab_c", merge(merged.ab, parts.C))
MergeA_BC == "bc" \in DOMAIN merged /\ Computed("a_bc", merge(parts.A, merged.bc))

NextPure == MergeAB \/ MergeBC \/ MergeAB_C \/ MergeA_BC

SpecPure == InitPure /\ [][NextPure]_vars

\* ------------------------------------------------------------- claims
\* the two-pass statistics of a sequence h of frame values of one element
RECURSIVE IntSum(_)
IntSum(h) == IF h = <<>> THEN 0 ELSE Head(h) + IntSum(Tail(h))

TwoPassMean(h) == Rat(IntSum(h), Len(h))

RECURSIVE SqDevSum(_, _)
SqDevSum(h, m) ==
    IF h = <<>> THEN I(0)
    ELSE FAdd(FMul(FSub(I(Head(h)), m), FSub(I(Head(h)), m)), SqDevSum(Tail(h), m))

TwoPassVar(h) == FDiv(SqDevSum(h, TwoPassMean(h)), I(Len(h)))

Inconsistent(num_frame) ==
    \E k1 \in DOMAIN num_frame, k2 \in DOMAIN num_frame : num_frame[k1] # num_frame[k2]

\* C1: two-pass equivalence.  When a worker that was only fed tiles (of any
\* sizes, from zeroed buffers) is finalized, then for frames of one region the
\* finalization returns, and whenever it returns, num_frame is the number of
\* frames folded in, and mean and variance of every element of a region are the
\* mean and the population variance (sum of squared deviations from the overall
\* mean, over N) of the frames folded into it.
C1_TwoPassEquivalence ==
    (last.op = "final" /\ tilesOnly[last.w] /\ DOMAIN bufs[last.w].num_frame # {})
    => /\ Cardinality(DOMAIN bufs[last.w].num_frame) = 1 => ~ret.raised
       /\ ~ret.raised =>
            \A key \in DOMAIN bufs[last.w].num_frame : \A i \in SigSlice(key) :
                /\ ret.out.num_frame = Len(hist[last.w][i])
                /\ ret.out.mean[i] = TwoPassMean(hist[last.w][i])
                /\ ret.out.var[i] = TwoPassVar(hist[last.w][i])
                /\ ret.out.sum_frame[i] = I(IntSum(hist[last.w][i]))

\* three frames 0, 1, 1 of one region, streamed in some tiling, finalized:
\* mean 2/3, variance 2/9
C1_Witness ==
    /\ last.op = "final" /\ tilesOnly[last.w] /\ ~ret.raised
    /\ DOMAIN bufs[last.w].num_frame = {"r1"}
    /\ hist[last.w]["r1"] = <<0, 1, 1>>
    /\ ret.out.num_frame = 3
    /\ ret.out.mean["r1"] = Rat(2, 3)
    /\ ret.out.var["r1"] = Rat(2, 9)

\* the accumulator StdDevUDF.merge builds of a result set
Acc(b) == VariancePart(b.var, b.sum_frame, _validate_n(b.num_frame).N)

\* one worker folding, frame by frame into zeroed buffers, all the frames h
RECURSIVE FoldFrames(_, _, _)
FoldFrames(results, key, h) ==
    IF \A i \in SigSlice(key) : h[i] = <<>> THEN results
    ELSE FoldFrames(process_tile(results, key,
                                 <<[i \in SigSlice(key) |-> Head(h[i])]>>),
                    key, [i \in SigSlice(key) |-> Tail(h[i])])

RECURSIVE FoldKeys(_, _, _)
FoldKeys(results, ks, h) ==
    IF ks = {} THEN results
    ELSE LET k == CHOOSE x \in ks : TRUE
         IN  FoldKeys(FoldFrames(results, k, Restrict(h, SigSlice(k))), ks \ {k}, h)

SingleWorker(h) ==
    FoldKeys(get_result_buffers,
             {k \in Keys : \E i \in SigSlice(k) : h[i] # <<>>}, h)

\* the shares of a set of frames: two workers fed by tiles only, each with
\* consistent counts, over the same region keys unless a share is empty
IsSplit(d, s) ==
    /\ pre.tilesOnly[d] /\ pre.tilesOnly[s]
    /\ ~Inconsistent(pre.bufs[d].num_frame) /\ ~Inconsistent(pre.bufs[s].num_frame)
    /\ \/ DOMAIN pre.bufs[d].num_frame = DOMAIN pre.bufs[s].num_frame
       \/ DOMAIN pre.bufs[d].num_frame = {}
       \/ DOMAIN pre.bufs[s].num_frame = {}

SameFinal(b1, b2) ==
    LET one == consolidate_result(b1)
        two == consolidate_result(b2)
    IN  /\ one.raised = two.raised
        /\ ~one.raised =>
             /\ one.out.var = two.out.var
             /\ one.out.mean = two.out.mean
             /\ one.out.sum_frame = two.out.sum_frame
             /\ one.out.num_frame = two.out.num_frame

\* C2: worker-split equivalence.  After StdDevUDF.merge(dest, src) of the
\* shares of two workers, finalizing dest gives the variance, mean, sum_frame
\* and num_frame of one worker folding all the frames.
C2_WorkerSplitEquivalence ==
    (last.op = "merge" /\ IsSplit(last.w, last.src))
    => /\ ~ret.raised
       /\ SameFinal(bufs[last.w], SingleWorker(hist[last.w]))

\* the same with both shares non-empty (holds)
C2_NonEmptyShares ==
    (/\ last.op = "merge" /\ IsSplit(last.w, last.src)
     /\ DOMAIN pre.bufs[last.w].num_frame # {}
     /\ DOMAIN pre.bufs[last.src].num_frame # {})
    => /\ ~ret.raised
       /\ SameFinal(bufs[last.w], SingleWorker(hist[last.w]))

\* C3: associativity of the pairwise merge: merge(merge(A,B),C) equals
\* merge(A,merge(B,C)) in var, sum_im and N for any accumulators A, B, C.
C3_MergeAssociative ==
    ("ab_c" \in DOMAIN merged /\ "a_bc" \in DOMAIN merged)
    => /\ merged.ab_c.var = merged.a_bc.var
       /\ merged.ab_c.sum_im = merged.a_bc.sum_im
       /\ merged.ab_c.N = merged.a_bc.N

\* the same for three non-empty accumulators (holds)
C3_NonEmptyAssociative ==
    (/\ "ab_c" \in DOMAIN merged /\ "a_bc" \in DOMAIN merged
     /\ parts.A.N > 0 /\ parts.B.N > 0 /\ parts.C.N > 0)
    => merged.ab_c = merged.a_bc

\* C4: commutativity of the partition merge: StdDevUDF.merge(dest=A, src=B)
\* leaves dest with the var and sum_frame that StdDevUDF.merge(dest=B, src=A)
\* leaves, and both leave the count N_A + N_B.
C4_PartitionMergeCommutative ==
    (last.op = "merge" /\ ~ret.raised)
    => LET other == StdDevUDF_merge(pre.bufs[last.src], pre.bufs[last.w]).dest
           n == Acc(pre.bufs[last.w]).N + Acc(pre.bufs[last.src]).N
       IN  /\ bufs[last.w].var = other.var
           /\ bufs[last.w].sum_frame = other.sum_frame
           /\ \A k \in DOMAIN bufs[last.w].num_frame : bufs[last.w].num_frame[k] = n
           /\ \A k \in DOMAIN other.num_frame : other.num_frame[k] = n

\* the var and sum_frame part for two result sets with frames (holds)
C4_NonEmptyCommutative ==
    (/\ last.op = "merge" /\ ~ret.raised
     /\ Acc(pre.bufs[last.w]).N > 0 /\ Acc(pre.bufs[last.src]).N > 0)
    => LET other == StdDevUDF_merge(pre.bufs[last.src], pre.bufs[last.w]).dest
       IN  /\ bufs[last.w].var = other.var
           /\ bufs[last.w].sum_frame = other.sum_frame

\* C5: count consistency enforcement.  With two region keys of different
\* counts, finalization raises and returns no result; the partition merge
\* raises, for the dest side and for the src side, and writes nothing.
C5_CountConsistencyEnforced ==
    /\ (last.op = "final" /\ Inconsistent(pre.bufs[last.w].num_frame))
       => (ret.raised /\ ret.out = NoResult /\ bufs = pre.bufs)
    /\ (/\ last.op = "merge"
        /\ \/ Inconsistent(pre.bufs[last.w].num_frame)
           \/ Inconsistent(pre.bufs[last.src].num_frame))
       => (ret.raised /\ ret.out = NoResult /\ bufs = pre.bufs)

\* a partition merge whose src (only) has two keys of different counts raised
C5_Witness ==
    /\ last.op = "merge"
    /\ ~Inconsistent(pre.bufs[last.w].num_frame)
    /\ DOMAIN pre.bufs[last.w].num_frame # {}
    /\ Inconsistent(pre.bufs[last.src].num_frame)
    /\ ret.raised

\* C6: right merge identity.  A partition merge of a src that processed no
\* frames into a dest with N > 0 leaves dest's var, sum_frame and counts as
\* they were (merge(A, B) with N_B = 0 returns A).
C6_RightIdentity ==
    (/\ last.op = "merge"
     /\ DOMAIN pre.bufs[last.src].num_frame = {}
     /\ ~Inconsistent(pre.bufs[last.w].num_frame)
     /\ Acc(pre.bufs[last.w]).N > 0)
    => /\ ~ret.raised
       /\ bufs[last.w] = pre.bufs[last.w]
       /\ merge(Acc(pre.bufs[last.w]), Acc(pre.bufs[last.src])) = Acc(pre.bufs[last.w])

\* C7: left merge identity.  merge(A, B) with N_A = 0 is exactly B: the first
\* tile of a region key leaves in the key's slice the tile's own accumulator,
\* whatever the slice held, and a partition merge into a dest without frames
\* leaves in dest the var, sum_frame and counts of src.
C7_LeftIdentity ==
    /\ (last.op = "tile" /\ last.key \notin DOMAIN pre.bufs[last.w].num_frame)
       => /\ Restrict(bufs[last.w].var, SigSlice(last.key)) = TileAcc(last.tile).var
          /\ Restrict(bufs[last.w].sum_frame, SigSlice(last.key))
               = TileAcc(last.tile).sum_im
          /\ bufs[last.w].num_frame[last.key] = TileAcc(last.tile).N
    /\ (last.op = "merge" /\ DOMAIN pre.bufs[last.w].num_frame = {}
        /\ ~Inconsistent(pre.bufs[last.src].num_frame))
       => /\ ~ret.raised
          /\ bufs[last.w] = pre.bufs[last.src]
    /\ \A w \in Workers, x \in Workers :
          Acc(bufs[w]).N = 0 => merge(Acc(bufs[w]), Acc(bufs[x])) = Acc(bufs[x])

\* a partition merge into a dest without frames of a src with a variance sum
C7_Witness ==
    /\ last.op = "merge" /\ ~ret.raised
    /\ DOMAIN pre.bufs[last.w].num_frame = {}
    /\ DOMAIN pre.bufs[last.src].num_frame # {}
    /\ pre.bufs[last.src].var["r1"] = Rat(1, 2)
    /\ bufs[last.w] = pre.bufs[last.src]

\* C8: partial accumulators are never finalized: a finalization that returned
\* a result for a worker's stream of tiles is never followed by a further tile
\* of that stream (the host had tiles left when it finalized).
C8_PartialNeverFinalized ==
    [][(last'.op = "tile" /\ tilesOnly[last'.w])
       => ~(/\ last.op = "final" /\ last.w = last'.w
            /\ ~ret.raised /\ DOMAIN bufs[last.w].num_frame # {})]_vars

\* C8 as amended: finalizing a worker's stream of tiles, wherever it was
\* stopped, fails exactly when two region keys hold different counts; otherwise
\* it returns a result whose num_frame is the number of frames folded so far
\* into each region key.
C8_PartialFailsOnlyWhenInconsistent ==
    (last.op = "final" /\ tilesOnly[last.w])
    => /\ ret.raised <=> Inconsistent(bufs[last.w].num_frame)
       /\ ~ret.raised =>
            \A key \in DOMAIN bufs[last.w].num_frame : \A i \in SigSlice(key) :
                ret.out.num_frame = Len(hist[last.w][i])

\* a stream stopped with two frames of r1 and one of r2: finalization raised
C8_Witness ==
    /\ last.op = "final" /\ tilesOnly[last.w]
    /\ DOMAIN bufs[last.w].num_frame = Keys
    /\ bufs[last.w].num_frame["r1"] = 2
    /\ bufs[last.w].num_frame["r2"] = 1
    /\ ret.raised

\* C9: no division by a zero count: finalizing a result set whose region-count
\* mapping is empty returns no numeric variance, std and mean.
C9_NoDivisionByZeroCount ==
    (last.op = "final" /\ DOMAIN bufs[last.w].num_frame = {})
    => (ret.raised /\ ret.out = NoResult)

\* C10: idempotent re-finalization: consolidate_result leaves the buffers it
\* is given as they were, and called again on them returns the same output.
C10_IdempotentFinalize ==
    last.op = "final"
    => /\ bufs = pre.bufs
       /\ consolidate_result(bufs[last.w]).raised = ret.raised
       /\ consolidate_result(bufs[last.w]).out = ret.out

\* a finalization of three frames with a variance
C10_Witness ==
    /\ last.op = "final" /\ ~ret.raised
    /\ ret.out.num_frame = 3
    /\ ret.out.var["r1"] = Rat(2, 9)
    /\ ret.out.std["r1"] = FSqrt(Rat(2, 9))

\* C11: the partition merge preserves count consistency: after a merge of
\* two result sets with consistent counts N_dest and N_src, every region key
\* of dest holds N_dest + N_src, whatever the key sets of the two sides.
C11_MergePreservesConsistency ==
    (/\ last.op = "merge"
     /\ ~Inconsistent(pre.bufs[last.w].num_frame)
     /\ ~Inconsistent(pre.bufs[last.src].num_frame))
    => /\ ~ret.raised
       /\ \A k \in DOMAIN bufs[last.w].num_frame :
             bufs[last.w].num_frame[k]
               = Acc(pre.bufs[last.w]).N + Acc(pre.bufs[last.src]).N
       /\ ~_validate_n(bufs[last.w].num_frame).raised

\* the same when every region key of dest is a key of src, or src has no
\* frames (holds)
C11_CoveredKeysConsistent ==
    (/\ last.op = "merge"
     /\ ~Inconsistent(pre.bufs[last.w].num_frame)
     /\ ~Inconsistent(pre.bufs[last.src].num_frame)
     /\ \/ DOMAIN pre.bufs[last.w].num_frame \subseteq DOMAIN pre.bufs[last.src].num_frame
        \/ DOMAIN pre.bufs[last.src].num_frame = {})
    => /\ ~ret.raised
       /\ \A k \in DOMAIN bufs[last.w].num_frame :
             bufs[last.w].num_frame[k]
               = Acc(pre.bufs[last.w]).N + Acc(pre.bufs[last.src]).N
       /\ ~_validate_n(bufs[last.w].num_frame).raised

\* C12: key update of the partition merge: dest's count becomes
\* N_dest + N_src for exactly the region keys of src (keys dest lacked are
\* added), a key only dest has keeps its count, and no key is removed.
C12_MergeKeyUpdate ==
    (last.op = "merge" /\ ~ret.raised)
    => /\ DOMAIN bufs[last.w].num_frame
            = DOMAIN pre.bufs[last.w].num_frame \cup DOMAIN pre.bufs[last.src].num_frame
       /\ \A k \in DOMAIN pre.bufs[last.src].num_frame :
             bufs[last.w].num_frame[k]
               = Acc(pre.bufs[last.w]).N + Acc(pre.bufs[last.src]).N
       /\ \A k \in DOMAIN pre.bufs[last.w].num_frame \ DOMAIN pre.bufs[last.src].num_frame :
             bufs[last.w].num_frame[k] = pre.bufs[last.w].num_frame[k]

\* a merge of src {r1: 1} into dest {r2: 1}: dest ends with {r1: 2, r2: 1}
C12_Witness ==
    /\ last.op = "merge" /\ ~ret.raised
    /\ DOMAIN pre.bufs[last.w].num_frame = {"r2"}
    /\ pre.bufs[last.w].num_frame["r2"] = 1
    /\ DOMAIN pre.bufs[last.src].num_frame = {"r1"}
    /\ pre.bufs[last.src].num_frame["r1"] = 1
    /\ DOMAIN bufs[last.w].num_frame = Keys
    /\ bufs[last.w].num_frame["r1"] = 2
    /\ bufs[last.w].num_frame["r2"] = 1

\* the count a result set stores for region key k before the key is seen: 0
CountOf(num_frame, k) == IF k \in DOMAIN num_frame THEN num_frame[k] ELSE 0

\* C13: tile-step count bookkeeping: a new region key starts at 0; after
\* process_tile calls only, each key's count is the number of frames folded in
\* under it; a call raises the count of its own key by the tile's frame
\* count, leaves the other keys' counts alone, and changes the count in the
\* same step that writes var and sum_frame of the key's slice.
C13_TileCountBookkeeping ==
    /\ \A w \in Workers : tilesOnly[w] =>
          /\ DOMAIN bufs[w].num_frame = {k \in Keys : Len(hist[w][k]) > 0}
          /\ \A k \in DOMAIN bufs[w].num_frame : \A i \in SigSlice(k) :
                bufs[w].num_frame[k] = Len(hist[w][i])
    /\ last.op = "tile" =>
          LET old == pre.bufs[last.w]
              new == bufs[last.w]
              S == SigSlice(last.key)
          IN  /\ DOMAIN new.num_frame = DOMAIN old.num_frame \cup {last.key}
              /\ new.num_frame[last.key]
                   = CountOf(old.num_frame, last.key) + Len(last.tile)
              /\ \A k \in DOMAIN old.num_frame \ {last.key} :
                    new.num_frame[k] = old.num_frame[k]
              /\ VariancePart(Restrict(new.var, S), Restrict(new.sum_frame, S),
                              new.num_frame[last.key])
                   = merge(VariancePart(Restrict(old.var, S),
                                        Restrict(old.sum_frame, S),
                                        CountOf(old.num_frame, last.key)),
                           TileAcc(last.tile))
              /\ \A w \in Workers \ {last.w} : bufs[w] = pre.bufs[w]

\* a second tile of region r1 on a worker that also holds a frame of r2
C13_Witness ==
    /\ last.op = "tile" /\ last.key = "r1" /\ Len(last.tile) = 1
    /\ tilesOnly[last.w]
    /\ DOMAIN pre.bufs[last.w].num_frame = Keys
    /\ pre.bufs[last.w].num_frame["r1"] = 1
    /\ bufs[last.w].num_frame["r1"] = 2
    /\ bufs[last.w].num_frame["r2"] = 1

\* C14: a failed partition merge changes nothing: a merge raises only on the
\* count validation of dest or of src, and then var, sum_frame and the region
\* counts of dest, and src, are as before the call.
C14_FailedMergeChangesNothing ==
    (last.op = "merge" /\ ret.raised)
    => /\ \/ _validate_n(pre.bufs[last.w].num_frame).raised
          \/ _validate_n(pre.bufs[last.src].num_frame).raised
       /\ bufs[last.w].var = pre.bufs[last.w].var
       /\ bufs[last.w].sum_frame = pre.bufs[last.w].sum_frame
       /\ bufs[last.w].num_frame = pre.bufs[last.w].num_frame
       /\ bufs[last.src] = pre.bufs[last.src]

\* a merge that raised on dest's counts {r1: 2, r2: 1}, src holding frames
C14_Witness ==
    /\ last.op = "merge" /\ ret.raised
    /\ _validate_n(pre.bufs[last.w].num_frame).raised
    /\ ~_validate_n(pre.bufs[last.src].num_frame).raised
    /\ DOMAIN pre.bufs[last.src].num_frame # {}
    /\ bufs[last.w] = pre.bufs[last.w]

\* x >= 0 for a value of the arithmetic (false for nan)
NonNegative(x) == x.n >= 0 /\ (x.d > 0 \/ x.n > 0)

\* C15: non-negative variance sum: after any tile updates and partition
\* merges from zeroed buffers every element of the accumulated var is >= 0,
\* the variance whose square root a finalization of at least one frame takes
\* is >= 0, and the local variance sum of a single-frame tile is 0.
C15_VarianceSumNonNegative ==
    /\ \A w \in Workers : \A i \in Pix : NonNegative(bufs[w].var[i])
    /\ (last.op = "final" /\ ~ret.raised /\ ret.out.num_frame > 0)
       => \A i \in Pix : NonNegative(ret.out.var[i])
    /\ (last.op = "tile" /\ Len(last.tile) = 1)
       => \A i \in SigSlice(last.key) : TileAcc(last.tile).var[i] = I(0)

\* the same with nan allowed: no element is ever negative (holds)
C15_VarianceSumNeverNegative ==
    /\ \A w \in Workers : \A i \in Pix :
          IsNaN(bufs[w].var[i]) \/ NonNegative(bufs[w].var[i])
    /\ (last.op = "final" /\ ~ret.raised /\ ret.out.num_frame > 0)
       => \A i \in Pix : IsNaN(ret.out.var[i]) \/ NonNegative(ret.out.var[i])
    /\ (last.op = "tile" /\ Len(last.tile) = 1)
       => \A i \in SigSlice(last.key) : TileAcc(last.tile).var[i] = I(0)

\* C16: the partition merge writes only to dest: after StdDevUDF.merge(dest,
\* src), raised or not, src's var, sum_frame and region counts are as before
\* the call, also when N_dest = 0 and the pairwise merge returns src's
\* accumulator.
C16_MergeWritesOnlyDest ==
    last.op = "merge"
    => /\ bufs[last.src].var = pre.bufs[last.src].var
       /\ bufs[last.src].sum_frame = pre.bufs[last.src].sum_frame
       /\ bufs[last.src].num_frame = pre.bufs[last.src].num_frame
       /\ \A w \in Workers \ {last.w} : bufs[w] = pre.bufs[w]

\* a merge of a src holding three frames of r1 into a dest with no frames
C16_Witness ==
    /\ last.op = "merge" /\ ~ret.raised
    /\ _validate_n(pre.bufs[last.w].num_frame).N = 0
    /\ DOMAIN pre.bufs[last.src].num_frame = {"r1"}
    /\ pre.bufs[last.src].num_frame["r1"] = 3
    /\ bufs[last.src] = pre.bufs[last.src]
    /\ bufs[last.w].var = pre.bufs[last.src].var

====
